---- MODULE Spec2Model ----
(***************************************************************************)
(* Model of python/backup-restore-py/demo_backup_restore.py: the backup /  *)
(* restore validation harness (generate, produce+flush, backup, delete     *)
(* topic, create topic, restore, consume, compare, exit code).             *)
(*                                                                         *)
(* Strings are modelled by what the code compares: an order id             *)
(* 'PY-ORD-dddd' is the sequence of its digits (the prefix is common to    *)
(* all ids), ordered as Python orders strings.  Amounts are in cents.      *)
(* Wall-clock time is counted in seconds since consume_messages took       *)
(* start_time.                                                             *)
(*                                                                         *)
(* Spec is a whole run of main().  SpecDrain is main() from step 7 on      *)
(* (consume_messages and what follows) after a successful restore;         *)
(* SpecCompare is main() at step 8 (compare_messages) with any two         *)
(* collections in hand.  SpecGenerate is main() at step 1.                 *)
(*                                                                         *)
(* SpecReport models benchmarks/tools/generate_report.py: the summary      *)
(* table generate_report writes for a results document.  A dict is a       *)
(* function on its keys; metric values are whole numbers.                  *)
(***************************************************************************)
EXTENDS Integers, Sequences, FiniteSets, TLC

\* ------------------------------------------------------------------ bounds
\* largest --messages value explored
MaxCount == 1
\* number of records the topic holds for the consumer after a restore
MaxRestored == 1
\* number of records the topic holds when consume_messages is run on its own
MaxPolled == 2
\* order ids given to compare_messages on its own: PY-ORD-0001 .. <MaxKey>
MaxKey == 3
\* longest collection given to compare_messages on its own
MaxLen == 2
\* largest --messages value given to generate_test_messages on its own
MaxGen == 6
\* metric values given to generate_report lie within Spread of their target
Spread == 1

\* -------------------------------------------------------- program constants
\* consume_messages(consumer, timeout=30.0)
DrainTimeout == 30
\* max_empty_polls = 10
max_empty_polls == 10
\* consumer.poll(1.0)
PollTimeout == 1
\* f'PY-ORD-{i:04d}'
IdWidth == 4
\* random.uniform(10.0, 1000.0), rounded to cents: the smallest amount
AmountLo == 1000

\* amounts a record may carry (AmountLo and AmountLo altered by 0.01)
Amounts == {AmountLo, AmountLo + 1}

\* ------------------------------------------------------------- pure helpers
RECURSIVE Digits(_)
\* decimal digits of a natural number, most significant first
Digits(n) == IF n < 10 THEN <<n>> ELSE Append(Digits(n \div 10), n % 10)

\* format spec 04d: zero-pad on the left to at least IdWidth digits
Fmt04d(i) ==
    LET d == Digits(i)
    IN  IF Len(d) >= IdWidth THEN d
        ELSE [k \in 1..(IdWidth - Len(d)) |-> 0] \o d

\* 'order_id': f'PY-ORD-{i:04d}'
OrderId(i) == Fmt04d(i)

RECURSIVE StrLess(_, _)
\* Python str < str: lexicographic, a proper prefix is smaller
StrLess(a, b) ==
    IF a = <<>> THEN b # <<>>
    ELSE IF b = <<>> THEN FALSE
    ELSE IF Head(a) # Head(b) THEN Head(a) < Head(b)
    ELSE StrLess(Tail(a), Tail(b))

\* the order id is numbered after the random amount instead of the index
generate_test_messages_KeyFromAmount(count, amt) ==
    [i \in 1..count |->
        [order_id |-> OrderId(amt[i] - AmountLo + 1), amount |-> amt[i]]]

RECURSIVE generate_test_messages(_, _)
\* generate_test_messages(count) with the random amounts given by amt[i]
generate_test_messages(count, amt) ==
    IF count <= 0 THEN <<>>
    ELSE Append(generate_test_messages(count - 1, amt),
                [order_id |-> OrderId(count), amount |-> amt[count]])

RECURSIVE InsertByKey(_, _)
\* insert x behind every element whose key is not greater (stable)
InsertByKey(x, s) ==
    IF s = <<>> THEN <<x>>
    ELSE IF StrLess(x.order_id, s[Len(s)].order_id)
         THEN Append(InsertByKey(x, SubSeq(s, 1, Len(s) - 1)), s[Len(s)])
         ELSE Append(s, x)

\* the lists are paired as they come, without sorting
Unsorted(s) == s

RECURSIVE SortedByOrderId(_)
\* sorted(xs, key=lambda x: x['order_id']): stable, ascending
SortedByOrderId(s) ==
    IF s = <<>> THEN <<>>
    ELSE InsertByKey(s[Len(s)], SortedByOrderId(SubSeq(s, 1, Len(s) - 1)))


\* the pair check without its amount branch
PairMismatch_KeyOnly(orig, rest) ==
    IF orig.order_id # rest.order_id
    THEN <<[field |-> "order_id", key |-> orig.order_id, actual |-> rest.order_id]>>
    ELSE <<>>

\* one element-wise pair of the zip loop: the lines it prints (0 or 1)
PairMismatch(orig, rest) ==
    IF orig.order_id # rest.order_id
    THEN <<[field |-> "order_id", key |-> orig.order_id, actual |-> rest.order_id]>>
    ELSE IF orig.amount # rest.amount
    THEN <<[field |-> "amount", key |-> orig.order_id, actual |-> rest.order_id]>>
    ELSE <<>>

RECURSIVE ZipMismatches(_, _, _)
\* the mismatch lines of the first n pairs of the two sorted lists, in order
ZipMismatches(os, rs, n) ==
    IF n = 0 THEN <<>>
    ELSE ZipMismatches(os, rs, n - 1) \o PairMismatch(os[n], rs[n])

\* compare without the length check: zip stops at the shorter list
compare_messages_NoCountCheck(original, restored) ==
    LET original_sorted == SortedByOrderId(original)
        restored_sorted == SortedByOrderId(restored)
        n == IF Len(original) < Len(restored) THEN Len(original) ELSE Len(restored)
        mm == ZipMismatches(original_sorted, restored_sorted, n)
    IN  [verdict |-> Len(mm) = 0, countMatch |-> TRUE, mismatches |-> mm]

\* compare_messages(original, restored): the returned bool (verdict) together
\* with what it printed (the count line, the per-pair mismatch lines)
compare_messages(original, restored) ==
    IF Len(original) # Len(restored)
    THEN [verdict |-> FALSE, countMatch |-> FALSE, mismatches |-> <<>>]
    ELSE LET original_sorted == SortedByOrderId(original)
             restored_sorted == SortedByOrderId(restored)
             mm == ZipMismatches(original_sorted, restored_sorted, Len(original))
         IN  [verdict |-> Len(mm) = 0, countMatch |-> TRUE, mismatches |-> mm]

\* msg.value().decode('utf-8') then json.loads: a payload is valid UTF-8 or
\* not, and if it is, its text is valid JSON (of a record) or not
Decode(payload) ==
    IF ~payload.utf8 THEN [exc |-> "UnicodeDecodeError"]
    ELSE IF ~payload.json THEN [exc |-> "JSONDecodeError"]
    ELSE [exc |-> "none", value |-> payload.value]

\* the timeout handler reports success
run_kafka_backup_command_TimeoutOk(outcome) == outcome \in {"exit0", "timeout"}

\* subprocess.run outcome -> the bool run_kafka_backup_command returns
run_kafka_backup_command(outcome) == outcome = "exit0"

\* subprocess.run outcome -> the bool run_kafka_cli_command returns
run_kafka_cli_command(outcome) == outcome = "exit0"

\* what subprocess.run can do: exit 0, exit non-zero, exceed the timeout
Outcomes == {"exit0", "nonzero", "timeout"}

\* number of delivery callbacks that were called without an error
Delivered(acks) == Cardinality({i \in DOMAIN acks : acks[i] = "ack"})

\* records with order ids PY-ORD-0001 .. PY-ORD-<n>
Records(n) == {[order_id |-> OrderId(i), amount |-> a] : i \in 1..n, a \in Amounts}

\* records the bus can hand to the consumer: any order id up to the largest
\* one generated, with any amount
BusRecords == Records(MaxCount)

NoRecord == [order_id |-> <<>>, amount |-> 0]

\* payloads the bus can hand to the consumer
Payloads ==
    {[utf8 |-> TRUE, json |-> TRUE, value |-> r] : r \in BusRecords}
    \cup {[utf8 |-> TRUE, json |-> FALSE, value |-> NoRecord],
          [utf8 |-> FALSE, json |-> FALSE, value |-> NoRecord]}

\* ------------------------------------------------------------------- state
VARIABLES
    pc,                 \* position of main()
    exit_code,          \* process exit status, -1 while running
    count,              \* args.messages
    original_messages,  \* main: original_messages
    delivered,          \* produce_messages: delivered (as printed)
    outcome,            \* step -> what its subprocess.run did
    trace,              \* the steps main has executed, in order
    consumer,           \* "none", "subscribed", "closed"
    closes,             \* number of consumer.close() calls
    messages,           \* consume_messages: messages
    empty_polls,        \* consume_messages: empty_polls
    elapsed,            \* time.time() - start_time
    polled,             \* number of records the bus has handed over
    cap,                \* number of records the topic holds
    watch,              \* the polls of this run are counted in the history
    raised,             \* the uncaught exception, "none" if none
    restored_messages,  \* main: restored_messages
    report,             \* what compare_messages returned and printed
    quiet,              \* history: polls in a row that returned no record
    hard,               \* history: some poll returned a hard error
    decoded,            \* history: the decodable records polled, in order
    results,            \* generate_report: the results document
    lines               \* generate_report: the summary table written so far

vars == <<pc, exit_code, count, original_messages, delivered, outcome, trace,
          consumer, closes, messages, empty_polls, elapsed, polled, cap, watch, raised,
          restored_messages, report, quiet, hard, decoded, results, lines>>

benchVars == <<results, lines>>

histVars == <<quiet, hard, decoded>>

drainVars == <<consumer, closes, messages, empty_polls, elapsed, polled, histVars>>

\* one more poll without a record; the history counter stops one past the
\* idle threshold, and counts only in a watched run
QuietMore(q, w) == IF ~w \/ q > max_empty_polls THEN q ELSE q + 1

\* no results document is at hand
NoResults == <<>>

Steps == {"backup", "delete", "create", "restore"}

NoReport == [verdict |-> FALSE, countMatch |-> FALSE, mismatches |-> <<>>]

\* main() starts with the parsed --messages value
Init ==
    /\ pc = "generate"
    /\ exit_code = -1
    /\ count \in 0..MaxCount
    /\ original_messages = <<>>
    /\ delivered = 0
    /\ outcome = [s \in Steps |-> "none"]
    /\ trace = <<>>
    /\ consumer = "none"
    /\ closes = 0
    /\ messages = <<>>
    /\ empty_polls = 0
    /\ elapsed = 0
    /\ polled = 0
    /\ cap = MaxRestored
    /\ watch = FALSE
    /\ raised = "none"
    /\ restored_messages = <<>>
    /\ report = NoReport
    /\ quiet = 0
    /\ hard = FALSE
    /\ decoded = <<>>
    /\ results = NoResults
    /\ lines = <<>>

\* sys.exit(code), or an uncaught exception (status 1)
Exit(code, exc) ==
    /\ pc' = "exited"
    /\ exit_code' = code
    /\ raised' = exc

\* Step 1: generate_test_messages, then print original_messages[0]
Generate ==
    /\ pc = "generate"
    /\ \E amt \in [1..count -> Amounts] :
          original_messages' = generate_test_messages(count, amt)
    /\ trace' = Append(trace, "generate")
    /\ IF original_messages' = <<>>
       THEN Exit(1, "IndexError")
       ELSE pc' = "produce" /\ UNCHANGED <<exit_code, raised>>
    /\ UNCHANGED <<cap, watch, benchVars, count, delivered, outcome, drainVars, restored_messages, report>>

\* Step 2: produce every message, flush(timeout=30), print the delivered count
Produce ==
    /\ pc = "produce"
    /\ \E acks \in [1..Len(original_messages) -> {"ack", "err", "pending"}] :
          delivered' = Delivered(acks)
    /\ trace' = Append(trace, "produce")
    /\ pc' = "backup"
    /\ UNCHANGED <<exit_code, cap, watch, benchVars, count, original_messages, outcome, drainVars, raised,
                   restored_messages, report>>

\* the backup is run again after a failure
Backup_Retry ==
    /\ pc = "backup"
    /\ \E o \in Outcomes :
          LET success == run_kafka_backup_command(o)
          IN  /\ outcome' = [outcome EXCEPT !["backup"] = o]
              /\ pc' = IF success THEN "delete" ELSE "backup"
    /\ trace' = Append(trace, "backup")
    /\ UNCHANGED <<exit_code, raised, cap, watch, benchVars, count, original_messages, delivered,
                   drainVars, restored_messages, report>>

\* Step 3: run the backup; sys.exit(1) if it did not succeed
Backup ==
    /\ pc = "backup"
    /\ \E o \in Outcomes :
          LET success == run_kafka_backup_command(o)
          IN  /\ outcome' = [outcome EXCEPT !["backup"] = o]
              /\ IF ~success
                 THEN Exit(1, "none")
                 ELSE pc' = "delete" /\ UNCHANGED <<exit_code, raised>>
    /\ trace' = Append(trace, "backup")
    /\ UNCHANGED <<cap, watch, benchVars, count, original_messages, delivered, drainVars,
                   restored_messages, report>>

\* the topic is deleted and recreated without the settle delay in between
DeleteTopic_NoSettle ==
    /\ pc = "delete"
    /\ \E o \in Outcomes : outcome' = [outcome EXCEPT !["delete"] = o]
    /\ trace' = Append(trace, "delete")
    /\ pc' = "create"
    /\ UNCHANGED <<exit_code, cap, watch, benchVars, count, original_messages, delivered, drainVars,
                   raised, restored_messages, report>>

\* Step 4: delete the topic (result not looked at), sleep 3
DeleteTopic ==
    /\ pc = "delete"
    /\ \E o \in Outcomes :
          LET success == run_kafka_cli_command(o)
          IN  outcome' = [outcome EXCEPT !["delete"] = o]
    /\ trace' = trace \o <<"delete", "sleep3">>
    /\ pc' = "create"
    /\ UNCHANGED <<exit_code, cap, watch, benchVars, count, original_messages, delivered, drainVars,
                   raised, restored_messages, report>>

\* Step 5: recreate the topic (result not looked at), sleep 2
CreateTopic ==
    /\ pc = "create"
    /\ \E o \in Outcomes :
          LET success == run_kafka_cli_command(o)
          IN  outcome' = [outcome EXCEPT !["create"] = o]
    /\ trace' = trace \o <<"create", "sleep2">>
    /\ pc' = "restore"
    /\ UNCHANGED <<exit_code, cap, watch, benchVars, count, original_messages, delivered, drainVars,
                   raised, restored_messages, report>>

\* Step 6: run the restore; sys.exit(1) if it did not succeed; sleep 2
Restore ==
    /\ pc = "restore"
    /\ \E o \in Outcomes :
          LET success == run_kafka_backup_command(o)
          IN  /\ outcome' = [outcome EXCEPT !["restore"] = o]
              /\ IF ~success
                 THEN /\ Exit(1, "none")
                      /\ trace' = Append(trace, "restore")
                 ELSE /\ pc' = "consume"
                      /\ trace' = trace \o <<"restore", "sleep2">>
                      /\ UNCHANGED <<exit_code, raised>>
    /\ UNCHANGED <<cap, watch, benchVars, count, original_messages, delivered, drainVars,
                   restored_messages, report>>


\* the loop stops one empty poll early
LoopCond_OneShort(ep) == ep < max_empty_polls - 1

\* while empty_polls < max_empty_polls
LoopCond(ep) == ep < max_empty_polls

\* if time.time() - start_time > timeout
TimedOut(e) == e > DrainTimeout

\* empty_polls after poll() returned None or a _PARTITION_EOF error
AfterEmpty(ep) == ep + 1

\* any error is counted like an end-of-partition event
AfterError_Counted(ep) == ep + 1

\* empty_polls after poll() returned any other error: print and continue
AfterError(ep) == ep

pipeVars == <<count, original_messages, delivered, outcome, cap, watch, benchVars>>

\* Step 7: create the consumer; consume_messages subscribes and takes start_time
Subscribe ==
    /\ pc = "consume"
    /\ consumer' = "subscribed"
    /\ messages' = <<>>
    /\ empty_polls' = 0
    /\ elapsed' = 0
    /\ trace' = Append(trace, "consume")
    /\ pc' = "polling"
    /\ quiet' = 0 /\ hard' = FALSE /\ decoded' = <<>>
    /\ UNCHANGED <<exit_code, pipeVars, closes, polled, raised,
                   restored_messages, report>>

\* the loop has ended: consumer.close(), return messages to main
Return ==
    /\ consumer' = "closed"
    /\ closes' = closes + 1
    /\ restored_messages' = messages
    /\ trace' = Append(trace, "close")
    /\ pc' = "validate"
    /\ UNCHANGED <<exit_code, pipeVars, messages, empty_polls, elapsed, polled,
                   raised, report, histVars>>

\* the while condition is false
DrainIdleExit ==
    /\ pc = "polling"
    /\ ~LoopCond(empty_polls)
    /\ Return

\* the timeout check at the top of the loop body breaks
DrainTimeoutBreak ==
    /\ pc = "polling"
    /\ LoopCond(empty_polls)
    /\ TimedOut(elapsed)
    /\ Return

\* the loop body gets as far as consumer.poll(1.0)
Polls == pc = "polling" /\ LoopCond(empty_polls) /\ ~TimedOut(elapsed)

\* poll(1.0) waits the whole second and returns None
PollNone ==
    /\ Polls
    /\ elapsed' = elapsed + PollTimeout
    /\ empty_polls' = AfterEmpty(empty_polls)
    /\ quiet' = QuietMore(quiet, watch)
    /\ UNCHANGED <<hard, decoded>>
    /\ UNCHANGED <<pc, exit_code, pipeVars, trace, consumer, closes, messages,
                   polled, raised, restored_messages, report>>

\* poll returns an event whose error code is _PARTITION_EOF
PollEOF ==
    /\ Polls
    /\ \E d \in 0..PollTimeout : elapsed' = elapsed + d
    /\ empty_polls' = AfterEmpty(empty_polls)
    /\ quiet' = QuietMore(quiet, watch)
    /\ UNCHANGED <<hard, decoded>>
    /\ UNCHANGED <<pc, exit_code, pipeVars, trace, consumer, closes, messages,
                   polled, raised, restored_messages, report>>

\* poll returns an event with any other error
PollError ==
    /\ Polls
    /\ \E d \in 0..PollTimeout : elapsed' = elapsed + d
    /\ empty_polls' = AfterError(empty_polls)
    /\ quiet' = QuietMore(quiet, watch)
    /\ hard' = watch
    /\ UNCHANGED decoded
    /\ UNCHANGED <<pc, exit_code, pipeVars, trace, consumer, closes, messages,
                   polled, raised, restored_messages, report>>

\* every decoded record is appended twice
Collect_Twice(msgs, value) == Append(Append(msgs, value), value)

\* messages.append(value)
Collect(msgs, value) == Append(msgs, value)

\* poll returns a record: reset empty_polls, decode, append
PollRecord ==
    /\ Polls
    /\ polled < cap
    /\ polled' = polled + 1
    /\ \E d \in 0..PollTimeout : elapsed' = elapsed + d
    /\ empty_polls' = 0
    /\ quiet' = 0
    /\ UNCHANGED hard
    /\ \E p \in Payloads :
          LET r == Decode(p)
          IN  /\ decoded' = IF p.utf8 /\ p.json THEN Append(decoded, p.value)
                            ELSE decoded
              /\ CASE r.exc = "none" ->
                        /\ messages' = Collect(messages, r.value)
                        /\ UNCHANGED <<pc, exit_code, raised>>
                   [] r.exc = "JSONDecodeError" ->
                        UNCHANGED <<messages, pc, exit_code, raised>>
                   [] OTHER ->
                        /\ Exit(1, r.exc)
                        /\ UNCHANGED messages
    /\ UNCHANGED <<pipeVars, trace, consumer, closes, restored_messages, report>>

\* Step 8: compare_messages, the summary, and the exit status
Validate ==
    /\ pc = "validate"
    /\ report' = compare_messages(original_messages, restored_messages)
    /\ trace' = Append(trace, "compare")
    /\ Exit(IF report'.verdict THEN 0 ELSE 1, "none")
    /\ UNCHANGED <<pipeVars, drainVars, restored_messages>>

Next ==
    \/ Generate
    \/ Produce
    \/ Backup
    \/ DeleteTopic
    \/ CreateTopic
    \/ Restore
    \/ Subscribe
    \/ DrainIdleExit
    \/ DrainTimeoutBreak
    \/ PollNone
    \/ PollEOF
    \/ PollError
    \/ PollRecord
    \/ Validate

Spec == Init /\ [][Next]_vars

\* ------------------------------------------- consume_messages on its own
\* main() at step 7, after every earlier step of a one-record run has
\* succeeded, with the consumer's polls counted
InitDrain ==
    /\ pc = "consume"
    /\ exit_code = -1
    /\ count = 1
    /\ \E amt \in [1..count -> Amounts] :
          original_messages = generate_test_messages(count, amt)
    /\ delivered = count
    /\ outcome = [s \in Steps |-> "exit0"]
    /\ trace = <<"generate", "produce", "backup", "delete", "sleep3",
                 "create", "sleep2", "restore", "sleep2">>
    /\ consumer = "none"
    /\ closes = 0
    /\ messages = <<>>
    /\ empty_polls = 0
    /\ elapsed = 0
    /\ polled = 0
    /\ cap = MaxPolled
    /\ watch = TRUE
    /\ raised = "none"
    /\ restored_messages = <<>>
    /\ report = NoReport
    /\ quiet = 0
    /\ hard = FALSE
    /\ decoded = <<>>
    /\ results = NoResults
    /\ lines = <<>>

NextDrain ==
    \/ Subscribe
    \/ DrainIdleExit
    \/ DrainTimeoutBreak
    \/ PollNone
    \/ PollEOF
    \/ PollError
    \/ PollRecord
    \/ Validate

SpecDrain == InitDrain /\ [][NextDrain]_vars

\* ------------------------------------------- compare_messages on its own
\* collections of at most n records
SeqsUpTo(S, n) == UNION {[1..k -> S] : k \in 0..n}

\* main() at step 8 with any two collections in hand
InitCompare ==
    /\ pc = "validate"
    /\ exit_code = -1
    /\ original_messages \in SeqsUpTo(Records(MaxKey), MaxLen)
    /\ restored_messages \in SeqsUpTo(Records(MaxKey), MaxLen)
    /\ count = Len(original_messages)
    /\ delivered = count
    /\ outcome = [s \in Steps |-> "exit0"]
    /\ trace = <<>>
    /\ consumer = "closed"
    /\ closes = 1
    /\ messages = restored_messages
    /\ empty_polls = max_empty_polls
    /\ elapsed = 0
    /\ polled = 0
    /\ cap = 0
    /\ watch = FALSE
    /\ raised = "none"
    /\ report = NoReport
    /\ quiet = 0
    /\ hard = FALSE
    /\ decoded = <<>>
    /\ results = NoResults
    /\ lines = <<>>

NextCompare == Validate

SpecCompare == InitCompare /\ [][NextCompare]_vars


\* ------------------------------------- generate_test_messages on its own
\* main() at step 1 with any parsed --messages value (argparse type=int
\* accepts zero and negative numbers)
InitGenerate ==
    /\ pc = "generate"
    /\ exit_code = -1
    /\ count \in (-1)..MaxGen
    /\ original_messages = <<>>
    /\ delivered = 0
    /\ outcome = [s \in Steps |-> "none"]
    /\ trace = <<>>
    /\ consumer = "none"
    /\ closes = 0
    /\ messages = <<>>
    /\ empty_polls = 0
    /\ elapsed = 0
    /\ polled = 0
    /\ cap = 0
    /\ watch = FALSE
    /\ raised = "none"
    /\ restored_messages = <<>>
    /\ report = NoReport
    /\ quiet = 0
    /\ hard = FALSE
    /\ decoded = <<>>
    /\ results = NoResults
    /\ lines = <<>>

NextGenerate == Generate

SpecGenerate == InitGenerate /\ [][NextGenerate]_vars


\* ------------------------------------------------- generate_report.py
\* the dicts with keys among keys and values among vals ({} included)
Dicts(keys, vals) == UNION {[D -> vals] : D \in SUBSET keys}

\* {}
EmptyDict == <<>>

\* d.get(k, default)
Get(d, k, default) == IF k \in DOMAIN d THEN d[k] ELSE default

\* if d: a dict is true when it is not empty
Truthy(d) == DOMAIN d # {}

\* the values a metric with target t takes
Near(t) == (t - Spread)..(t + Spread)

\* the scenario dicts a results document may hold
ThroughputDicts == Dicts({"backup_mbps", "restore_mbps"}, Near(100))
CompressionDicts == Dicts({"zstd", "lz4"}, Dicts({"ratio"}, Near(3)))
LatencyDicts == Dicts({"checkpoint_p99_ms", "restore_p99_ms"}, Near(100))

\* the target is met only when strictly exceeded (undercut)
check_target_Strict(value, target, higher_is_better) ==
    IF higher_is_better
    THEN IF value > target THEN "PASS" ELSE "FAIL"
    ELSE IF value < target THEN "PASS" ELSE "FAIL"

\* check_target(value, target, higher_is_better=True)
check_target(value, target, higher_is_better) ==
    IF higher_is_better
    THEN IF value >= target THEN "PASS" ELSE "FAIL"
    ELSE IF value <= target THEN "PASS" ELSE "FAIL"

\* the header of the summary table
SummaryHeader == <<[metric |-> "Metric", result |-> 0, status |-> "Status"]>>

\* the rows generate_report appends under '## Summary', in order
SummaryRows(doc) ==
    LET scenarios == Get(doc, "scenarios", EmptyDict)
        throughput == Get(scenarios, "throughput", EmptyDict)
        compression == Get(scenarios, "compression", EmptyDict)
        latency == Get(scenarios, "latency", EmptyDict)
        backup_mbps == Get(throughput, "backup_mbps", 0)
        zstd == Get(compression, "zstd", EmptyDict)
        ratio == Get(zstd, "ratio", 0)
        checkpoint_p99 == Get(latency, "checkpoint_p99_ms", 0)
    IN  (IF Truthy(throughput)
         THEN <<[metric |-> "Throughput (Backup)", result |-> backup_mbps,
                 status |-> check_target(backup_mbps, 100, TRUE)]>>
         ELSE <<>>)
        \o
        (IF Truthy(compression)
         THEN <<[metric |-> "Compression Ratio", result |-> ratio,
                 status |-> check_target(ratio, 3, TRUE)]>>
         ELSE <<>>)
        \o
        (IF Truthy(latency)
         THEN <<[metric |-> "Checkpoint p99", result |-> checkpoint_p99,
                 status |-> check_target(checkpoint_p99, 100, FALSE)]>>
         ELSE <<>>)

\* main() of generate_report.py has loaded a results document; the harness
\* is not running
InitReport ==
    /\ pc = "none"
    /\ exit_code = -1
    /\ count = 0
    /\ original_messages = <<>>
    /\ delivered = 0
    /\ outcome = [s \in Steps |-> "none"]
    /\ trace = <<>>
    /\ consumer = "none"
    /\ closes = 0
    /\ messages = <<>>
    /\ empty_polls = 0
    /\ elapsed = 0
    /\ polled = 0
    /\ cap = 0
    /\ watch = FALSE
    /\ raised = "none"
    /\ restored_messages = <<>>
    /\ report = NoReport
    /\ quiet = 0
    /\ hard = FALSE
    /\ decoded = <<>>
    /\ \E t \in ThroughputDicts, c \in CompressionDicts, l \in LatencyDicts :
       \E present \in SUBSET {"throughput", "compression", "latency"} :
          LET all == [throughput |-> t, compression |-> c, latency |-> l]
          IN  results = [scenarios |-> [k \in present |-> all[k]]]
    /\ lines = <<>>

\* generate_report(results): the summary table
GenerateReport ==
    /\ results # NoResults
    /\ lines = <<>>
    /\ lines' = SummaryHeader \o SummaryRows(results)
    /\ UNCHANGED <<pc, exit_code, count, original_messages, delivered, outcome,
                   trace, cap, watch, raised, restored_messages, report,
                   drainVars, results>>

NextReport == GenerateReport

SpecReport == InitReport /\ [][NextReport]_vars


\* ------------------------------------------------------ shared vocabulary
\* main has executed the step
Invoked(s) == \E i \in 1..Len(trace) : trace[i] = s

\* the step's command exited non-zero or timed out
Failed(s) == outcome[s] \in {"nonzero", "timeout"}

\* fewer delivery acknowledgments than published records
Shortfall == Invoked("produce") /\ delivered < Len(original_messages)

\* the keys of a collection are pairwise distinct
DistinctKeys(s) ==
    \A i, j \in 1..Len(s) : s[i].order_id = s[j].order_id => i = j

\* b holds the same records as a, in any order
IsPermutation(a, b) ==
    /\ Len(a) = Len(b)
    /\ \E f \in [1..Len(a) -> 1..Len(a)] :
          /\ \A i, j \in 1..Len(a) : f[i] = f[j] => i = j
          /\ \A i \in 1..Len(a) : b[i] = a[f[i]]

\* s without its k-th element
Without(s, k) == SubSeq(s, 1, k - 1) \o SubSeq(s, k + 1, Len(s))

\* compare_messages has run on the two collections
Compared == Invoked("compare")

\* ------------------------------------------------------------------ claims

\* C1: whenever fewer than N of the N published records were acknowledged by
\* the time flush returned, the backup command is not invoked.
C1_DeliveryShortfallIsFatal == Shortfall => ~Invoked("backup")

\* C2: after a failed delete-topic command no create, restore, drain or
\* compare runs; after a failed create-topic command no restore, drain or
\* compare runs.
C2_TopicResetFailureIsFatal ==
    /\ Failed("delete") =>
          \A s \in {"create", "restore", "consume", "compare"} : ~Invoked(s)
    /\ Failed("create") =>
          \A s \in {"restore", "consume", "compare"} : ~Invoked(s)

\* C3: if the backup command exits non-zero or times out, the harness has
\* exited with code 1 and no delete, create, restore, drain or compare was
\* executed; if the restore command exits non-zero or times out, the harness
\* has exited with code 1 and no drain or compare was executed.
C3_ToolFailureAborts ==
    /\ Failed("backup") =>
          /\ pc = "exited" /\ exit_code = 1
          /\ \A s \in {"delete", "create", "restore", "consume", "compare"} :
                ~Invoked(s)
    /\ Failed("restore") =>
          /\ pc = "exited" /\ exit_code = 1
          /\ \A s \in {"consume", "compare"} : ~Invoked(s)

\* the restore command timed out after backup, delete and create had run
C3_Witness ==
    /\ outcome["restore"] = "timeout"
    /\ Invoked("create")
    /\ pc = "exited"

\* C4: drain never stops in any way other than closing and returning, and the
\* time since subscribing never exceeds the overall timeout plus one poll.
C4_DrainReturnsInTime ==
    /\ (Invoked("consume") /\ pc # "polling") => Invoked("close")
    /\ elapsed <= DrainTimeout + PollTimeout

\* C5 as stated: a poll that returns a hard consumer error increments the
\* idle counter by one.
C5_HardErrorCountsAsIdle == [][PollError => empty_polls' = empty_polls + 1]_vars

\* C5 amended: a poll that returns a hard consumer error leaves the idle
\* counter as it was, keeps the collected records, and the loop goes on.
C5_HardErrorLeavesIdleCounter ==
    [][PollError => /\ empty_polls' = empty_polls
                    /\ messages' = messages
                    /\ pc' = "polling"
                    /\ consumer' = "subscribed"]_vars

\* more seconds of hard errors than the idle threshold, and still polling
C5_Witness ==
    /\ pc = "polling"
    /\ polled = 0
    /\ empty_polls = 0
    /\ elapsed > max_empty_polls * PollTimeout

\* C6: a payload that fails to decode never aborts the drain.
C6_DecodeFailureIsSoft ==
    raised \notin {"UnicodeDecodeError", "JSONDecodeError"}

\* C7: a run that exits with code 0 delivered all N records, had every
\* command succeed, drained and got a true verdict; a run that has exited
\* after a failed step or a false verdict exited with code 1.
C7_ExitZeroOnlyOnFullSuccess ==
    pc = "exited" =>
       /\ exit_code = 0 =>
             /\ ~Shortfall
             /\ \A s \in Steps : outcome[s] = "exit0"
             /\ Invoked("close")
             /\ Compared /\ report.verdict
       /\ (Shortfall \/ (\E s \in Steps : Failed(s)) \/ raised # "none"
             \/ (Compared /\ ~report.verdict)) => exit_code = 1

\* C8: when the two collections differ in length, compare returns a false
\* verdict with the count check failed and no per-record mismatch.
C8_CountMismatchShortCircuit ==
    (Compared /\ Len(restored_messages) # Len(original_messages)) =>
        /\ report = [verdict |-> FALSE, countMatch |-> FALSE, mismatches |-> <<>>]
        /\ exit_code = 1

\* compare has run on two non-empty collections of different lengths
C8_Witness ==
    /\ Compared
    /\ Len(original_messages) = 2
    /\ Len(restored_messages) = 1
    /\ restored_messages[1] # original_messages[1]

\* C9: when the expected keys are pairwise distinct and the actual collection
\* is a permutation of the expected one, compare returns a true verdict with
\* no mismatch.
C9_RoundTripAnyOrder ==
    (Compared /\ DistinctKeys(original_messages)
       /\ IsPermutation(original_messages, restored_messages)) =>
        /\ report = [verdict |-> TRUE, countMatch |-> TRUE, mismatches |-> <<>>]
        /\ exit_code = 0

\* compare has run on two records that were delivered in the opposite order
C9_Witness ==
    /\ Compared
    /\ Len(original_messages) = 2
    /\ DistinctKeys(original_messages)
    /\ restored_messages = <<original_messages[2], original_messages[1]>>

\* actual is expected in some order, except that the record with expected's
\* j-th key carries another amount
OneAmountDiffers(expected, actual, j) ==
    \E k \in 1..Len(actual) :
        /\ actual[k].order_id = expected[j].order_id
        /\ actual[k].amount # expected[j].amount
        /\ IsPermutation(Without(expected, j), Without(actual, k))

\* C10: when the expected keys are pairwise distinct and the actual
\* collection equals the expected one in some order except for one record's
\* amount, compare reports exactly one mismatch, an amount mismatch for that
\* record's key, and the verdict is false.
C10_OneAmountMismatch ==
    \A j \in 1..Len(original_messages) :
        (Compared /\ DistinctKeys(original_messages)
           /\ OneAmountDiffers(original_messages, restored_messages, j)) =>
            /\ report.mismatches =
                  <<[field |-> "amount", key |-> original_messages[j].order_id,
                     actual |-> original_messages[j].order_id]>>
            /\ ~report.verdict
            /\ report.countMatch
            /\ exit_code = 1

\* compare has run on two records delivered in the opposite order, one of
\* them with an altered amount
C10_Witness ==
    /\ Compared
    /\ Len(original_messages) = 2
    /\ DistinctKeys(original_messages)
    /\ \E j \in 1..2 :
          /\ OneAmountDiffers(original_messages, restored_messages, j)
          /\ restored_messages[j].order_id # original_messages[j].order_id


\* number of records of s that carry the key k
KeyCount(s, k) == Cardinality({i \in 1..Len(s) : s[i].order_id = k})

\* the key occurs in the collection
HasKey(s, k) == KeyCount(s, k) > 0

\* compare printed at least one key ("Mismatch: a != b") line
KeyMismatchReported ==
    \E i \in 1..Len(report.mismatches) : report.mismatches[i].field = "order_id"

\* C11 as stated: for equal-length collections (each with pairwise distinct
\* keys), the expected key of every reported key mismatch exists in only one
\* of the two collections.
C11_KeyMismatchMeansOneSided ==
    (Compared /\ Len(original_messages) = Len(restored_messages)
       /\ DistinctKeys(original_messages) /\ DistinctKeys(restored_messages)) =>
        \A i \in 1..Len(report.mismatches) :
            report.mismatches[i].field = "order_id" =>
                ~(/\ HasKey(original_messages, report.mismatches[i].key)
                  /\ HasKey(restored_messages, report.mismatches[i].key))

\* C11 amended: for equal-length collections, whenever a key mismatch is
\* reported, some key occurs a different number of times in the two
\* collections (the key named in the report need not be that key).
C11_KeyMismatchMeansKeysDiffer ==
    (Compared /\ Len(original_messages) = Len(restored_messages)
       /\ KeyMismatchReported) =>
        \E i \in 1..Len(original_messages) :
            KeyCount(original_messages, original_messages[i].order_id)
              # KeyCount(restored_messages, original_messages[i].order_id)

\* two distinct expected keys, the restore holds the larger one and a foreign
\* one: the reported expected key of the second pair is present on both sides
C11_Witness ==
    /\ Compared
    /\ Len(original_messages) = 2
    /\ Len(restored_messages) = 2
    /\ DistinctKeys(original_messages)
    /\ DistinctKeys(restored_messages)
    /\ Len(report.mismatches) = 2
    /\ \E i \in 1..2 :
          /\ report.mismatches[i].field = "order_id"
          /\ HasKey(restored_messages, report.mismatches[i].key)


\* C17: when the expected keys are pairwise distinct and compare returns a
\* true verdict, the actual collection has the expected length and holds,
\* for every expected record, a record with the same key and amount.
C17_TrueVerdictMeansEquivalent ==
    (Compared /\ DistinctKeys(original_messages) /\ report.verdict) =>
        /\ Len(restored_messages) = Len(original_messages)
        /\ \A i \in 1..Len(original_messages) :
              \E k \in 1..Len(restored_messages) :
                  /\ restored_messages[k].order_id = original_messages[i].order_id
                  /\ restored_messages[k].amount = original_messages[i].amount
        /\ IsPermutation(original_messages, restored_messages)

\* a true verdict on two records that arrived in the opposite order, the
\* larger key first in the expected collection
C17_Witness ==
    /\ Compared
    /\ report.verdict
    /\ exit_code = 0
    /\ Len(original_messages) = 2
    /\ restored_messages # original_messages
    /\ StrLess(original_messages[2].order_id, original_messages[1].order_id)


\* the order in which main() runs its steps; every entry is logged when the
\* blocking call it names has returned
PipelineOrder ==
    <<"generate", "produce", "backup", "delete", "sleep3", "create", "sleep2",
      "restore", "sleep2", "consume", "close", "compare">>

\* position of the first occurrence of a step in the trace, 0 if none
FirstAt(s) ==
    IF Invoked(s) THEN CHOOSE i \in 1..Len(trace) :
                          trace[i] = s /\ \A j \in 1..(i - 1) : trace[j] # s
    ELSE 0

\* step b has been executed, and only after step a
After(a, b) == Invoked(b) => (Invoked(a) /\ FirstAt(a) < FirstAt(b))

\* C12: the steps run one after the other in the fixed order: backup after
\* produce+flush has returned, delete after the backup command has exited,
\* create after the settle delay that follows delete, restore after the
\* settle delay that follows create, drain after the restore command has
\* exited and succeeded.
C12_StrictStepOrder ==
    /\ Len(trace) <= Len(PipelineOrder)
    /\ \A i \in 1..Len(trace) : trace[i] = PipelineOrder[i]
    /\ After("produce", "backup")
    /\ After("backup", "delete")
    /\ After("sleep3", "create")
    /\ After("create", "restore")
    /\ Invoked("restore") => trace[FirstAt("restore") - 1] = "sleep2"
    /\ After("restore", "consume")
    /\ Invoked("consume") => outcome["restore"] = "exit0"

\* a run that has gone through every step up to the comparison
C12_Witness ==
    /\ pc = "exited"
    /\ trace = PipelineOrder
    /\ outcome["delete"] = "timeout"

\* number of times the step occurs in the trace
TimesRun(s) == Cardinality({i \in 1..Len(trace) : trace[i] = s})

\* C20: backup, delete-topic, create-topic and restore are each invoked at
\* most once whatever their outcome, and publish, drain and compare each run
\* at most once.
C20_NoStepRetried ==
    \A s \in {"backup", "delete", "create", "restore", "produce", "consume",
              "compare"} : TimesRun(s) <= 1

\* the backup command timed out and the run is over, after a single attempt
C20_Witness ==
    /\ pc = "exited"
    /\ outcome["backup"] = "timeout"
    /\ TimesRun("backup") = 1


\* consume_messages has closed the consumer and returned
Returned == Invoked("close")

C18_ReturnsWhatWasDelivered ==
    /\ (Invoked("consume") /\ raised = "none") => messages = decoded
    /\ Returned => restored_messages = decoded

\* drain has returned two records, having also seen hard errors and more
\* empty polls than the idle threshold
C18_Witness ==
    /\ watch
    /\ Returned
    /\ Len(restored_messages) = 2
    /\ polled = 2
    /\ hard
    /\ quiet > max_empty_polls

\* C19: whenever drain has stopped polling, the consumer has been closed,
\* exactly once.
C19_ClosedWheneverStopped ==
    /\ closes <= 1
    /\ (Invoked("consume") /\ pc # "polling") =>
          (consumer = "closed" /\ closes = 1)


RECURSIVE IdValue(_)
\* the number an order id's digits spell
IdValue(d) ==
    IF d = <<>> THEN 0 ELSE 10 * IdValue(SubSeq(d, 1, Len(d) - 1)) + d[Len(d)]

\* C14: for a positive count, generate_test_messages returns exactly count
\* records whose keys are pairwise distinct; the key of the i-th record is
\* the index i formatted, whatever amounts the random source gave.
C14_GenerateCountDistinctKeys ==
    (Invoked("generate") /\ count > 0) =>
       /\ Len(original_messages) = count
       /\ DistinctKeys(original_messages)
       /\ \A i \in 1..Len(original_messages) :
             /\ original_messages[i].order_id = OrderId(i)
             /\ IdValue(original_messages[i].order_id) = i
             /\ Len(original_messages[i].order_id) = IdWidth

\* a batch of at least three records in which the random source gave two
\* records the same amount
C14_Witness ==
    /\ Invoked("generate")
    /\ count >= 3
    /\ Len(original_messages) = count
    /\ original_messages[1].amount = original_messages[2].amount
    /\ original_messages[2].amount # original_messages[3].amount

\* C15: a count that is not positive is rejected with InvalidArgument, and no
\* record sequence is returned for it.
C15_NonPositiveCountRejected ==
    (Invoked("generate") /\ count <= 0) => raised = "InvalidArgument"


\* the summary table has been written
Reported == lines # <<>>

\* the status cells of the summary rows for the metric
StatusOf(metric) ==
    {lines[i].status : i \in {j \in 1..Len(lines) : lines[j].metric = metric}}

\* the results document holds the scenario and the metric under it
HasThroughput ==
    /\ "throughput" \in DOMAIN results.scenarios
    /\ "backup_mbps" \in DOMAIN results.scenarios.throughput

HasCompression ==
    /\ "compression" \in DOMAIN results.scenarios
    /\ "zstd" \in DOMAIN results.scenarios.compression
    /\ "ratio" \in DOMAIN results.scenarios.compression.zstd

HasLatency ==
    /\ "latency" \in DOMAIN results.scenarios
    /\ "checkpoint_p99_ms" \in DOMAIN results.scenarios.latency

====
